---- MODULE Spec2Model ----
(***************************************************************************)
(* The Coverflow scroll controller of www/src/views/Coverflow.js as a      *)
(* state machine: the fields the constructor sets, the particle and the    *)
(* spring it owns, and one action per event handler or public method.      *)
(*                                                                         *)
(* Numbers.  Positions, deltas, sizes and anchors are integers counted in  *)
(* units of 1/PosUnit pixel, so that Math.round is not the identity.       *)
(* Velocities are integers counted in units of 1/VelUnit.                  *)
(***************************************************************************)
EXTENDS Integers, Sequences, FiniteSets

\* ------------------------------------------------------------- units
PosUnit == 2
VelUnit == 1000

\* ------------------------------------------------------------- enums
SpringNONE == 0
SpringEDGE == 1
SpringPAGE == 2

EdgeTOP == -1
EdgeNONE == 0
EdgeBOTTOM == 1

Null == -1
Undefined == -2

\* ------------------------------------------------------------- options
\* Coverflow.DEFAULT_OPTIONS, in model units
edgeGripPermille == 200
edgePeriod == 300
pagePeriod == 500
pageStopSpeed == 10000
pageSwitchSpeed == 500
speedLimit == 5000
coverCenter == 0

\* ------------------------------------------------------------- bounds
NumNodes == 3
MaxGrid == 3

\* ------------------------------------------------------------- state
VARIABLES
    node,                  \* this._node: index of the current node, or Null
    touchCount,            \* this._touchCount
    springState,           \* this._springState
    onEdge,                \* this._onEdge
    pageSpringPosition,    \* this._pageSpringPosition
    edgeSpringPosition,    \* this._edgeSpringPosition
    touchVelocity,         \* this._touchVelocity
    earlyEnd,              \* this._earlyEnd
    needsPaginationCheck,  \* this._needsPaginationCheck
    displacement,          \* this._displacement
    totalShift,            \* this._totalShift
    cachedIndex,           \* this._cachedIndex
    position,              \* this._particle position (1D)
    velocity,              \* this._particle velocity (1D)
    agents,                \* forces attached to the particle, in attach order
    anchor,                \* this.spring anchor
    period,                \* this.spring period
    scrollValue,           \* this._scrollTransitionable value
    scrollActive,          \* this._scrollModifier transforms from _scrollAnimation
    paginated,             \* this.options.paginated
    gesture,               \* the sync is between a start and its final end
    lastOp,                \* the handler or method that ran last
    lastArg,               \* the index it was given, for goToPage
    shifted,               \* the _shiftOrigin calls it made: amount, before, after
    calls,                 \* the methods that handler called, in order
    ret,                   \* what the last navigation method returned
    emitted,               \* the events the last handler emitted, in order
    threw                  \* the last handler ended in a TypeError

vars == <<node, touchCount, springState, onEdge, pageSpringPosition,
          edgeSpringPosition, touchVelocity, earlyEnd, needsPaginationCheck,
          displacement, totalShift, cachedIndex, position, velocity, agents,
          anchor, period, scrollValue, scrollActive, paginated, gesture,
          lastOp, lastArg, shifted, calls, ret, emitted, threw>>

\* ------------------------------------------------------------- helpers
Abs(x) == IF x < 0 THEN -x ELSE x

\* Math.round on a position held in 1/PosUnit pixels: halves round up
Round(x) == ((2 * x + PosUnit) \div (2 * PosUnit)) * PosUnit

\* the bound collection: NumNodes items, the ViewSequence links
getNext(n) == IF n + 1 < NumNodes THEN n + 1 ELSE Null
getPrevious(n) == IF n > 0 THEN n - 1 ELSE Null

\* node.getSize() along the scroll direction; the last item reports no size
getSize(n) == IF n = NumNodes - 1 THEN Undefined
              ELSE (2 + (n % 2)) * 100 * PosUnit

\* this._scroller.getSize()[direction]
scrollerSize == 100 * PosUnit

_nodeSizeForDirection(n) ==
    IF getSize(n) = Undefined THEN scrollerSize ELSE getSize(n)

\* node._.cumulativeSizes[index][direction]
RECURSIVE cumulativeSizes(_)
cumulativeSizes(i) ==
    IF i <= 0 THEN 0 ELSE cumulativeSizes(i - 1) + _nodeSizeForDirection(i - 1)

\* the controller's fields as one record, for the handlers to transform
State ==
    [node |-> node, touchCount |-> touchCount, springState |-> springState,
     onEdge |-> onEdge, pageSpringPosition |-> pageSpringPosition,
     edgeSpringPosition |-> edgeSpringPosition, touchVelocity |-> touchVelocity,
     earlyEnd |-> earlyEnd, needsPaginationCheck |-> needsPaginationCheck,
     displacement |-> displacement, totalShift |-> totalShift,
     cachedIndex |-> cachedIndex, position |-> position, velocity |-> velocity,
     agents |-> agents, anchor |-> anchor, period |-> period,
     scrollValue |-> scrollValue, scrollActive |-> scrollActive,
     shifted |-> <<>>, calls |-> <<>>, ret |-> Undefined, emitted |-> <<>>,
     threw |-> FALSE]

Commit(op, arg, s) ==
    /\ node' = s.node
    /\ touchCount' = s.touchCount
    /\ springState' = s.springState
    /\ onEdge' = s.onEdge
    /\ pageSpringPosition' = s.pageSpringPosition
    /\ edgeSpringPosition' = s.edgeSpringPosition
    /\ touchVelocity' = s.touchVelocity
    /\ earlyEnd' = s.earlyEnd
    /\ needsPaginationCheck' = s.needsPaginationCheck
    /\ displacement' = s.displacement
    /\ totalShift' = s.totalShift
    /\ cachedIndex' = s.cachedIndex
    /\ position' = s.position
    /\ velocity' = s.velocity
    /\ agents' = s.agents
    /\ anchor' = s.anchor
    /\ period' = s.period
    /\ scrollValue' = s.scrollValue
    /\ scrollActive' = s.scrollActive
    /\ calls' = s.calls
    /\ ret' = s.ret
    /\ emitted' = s.emitted
    /\ threw' = s.threw
    /\ lastOp' = op
    /\ lastArg' = arg
    /\ shifted' = s.shifted
    /\ paginated' = paginated

\* ------------------------------------------------------------- accessors
getPosition(s) == s.position
setPosition(s, x) == [s EXCEPT !.position = x]
getVelocity(s) == IF s.touchCount # 0 THEN s.touchVelocity ELSE s.velocity
setVelocity(s, v) == [s EXCEPT !.velocity = v]
getCurrentIndex(s) == s.node
getAbsolutePosition(s) == cumulativeSizes(getCurrentIndex(s)) + getPosition(s)

\* ------------------------------------------------------------- forces
\* _attachAgents attaching drag and friction whatever the SpringState
_attachAgents_free(s) == [s EXCEPT !.agents = @ \o <<"drag", "friction">>]

_attachAgents(s) ==
    IF s.springState # SpringNONE
    THEN [s EXCEPT !.agents = @ \o <<"spring">>]
    ELSE [s EXCEPT !.agents = @ \o <<"drag", "friction">>]

_detachAgents(s) == [s EXCEPT !.springState = SpringNONE, !.agents = <<>>]

_setSpring(s, pos, state) ==
    LET s1 == IF state = SpringEDGE
              THEN [s EXCEPT !.edgeSpringPosition = pos, !.anchor = pos,
                             !.period = edgePeriod]
              ELSE IF state = SpringPAGE
              THEN [s EXCEPT !.pageSpringPosition = pos, !.anchor = pos,
                             !.period = pagePeriod]
              ELSE s
        s2 == IF state # SpringNONE /\ s1.springState = SpringNONE
              THEN _attachAgents([_detachAgents(s1) EXCEPT !.springState = state])
              ELSE s1
    IN  [s2 EXCEPT !.springState = state]

\* _shiftOrigin moving the particle without recording the shift
_shiftOrigin_untracked(s, amount) ==
    LET s0 == [s EXCEPT !.edgeSpringPosition = @ + amount,
                        !.pageSpringPosition = @ + amount,
                        !.position = @ + amount]
    IN  [s0 EXCEPT !.shifted =
            Append(@, [amount |-> amount,
                       before |-> [position |-> s.position,
                                   totalShift |-> s.totalShift],
                       after |-> [position |-> s0.position,
                                  totalShift |-> s0.totalShift]])]

\* _shiftOrigin leaving the live anchor of the spring where it was
_shiftOrigin_stale(s, amount) ==
    LET s0 == [s EXCEPT !.edgeSpringPosition = @ + amount,
                        !.pageSpringPosition = @ + amount,
                        !.position = @ + amount,
                        !.totalShift = @ + amount]
    IN  [s0 EXCEPT !.shifted =
            Append(@, [amount |-> amount,
                       before |-> [position |-> s.position,
                                   totalShift |-> s.totalShift],
                       after |-> [position |-> s0.position,
                                  totalShift |-> s0.totalShift]])]

_shiftOrigin(s, amount) ==
    LET s0 == [s EXCEPT !.edgeSpringPosition = @ + amount,
                        !.pageSpringPosition = @ + amount,
                        !.position = @ + amount,
                        !.totalShift = @ + amount]
        s1 == [s0 EXCEPT !.shifted =
                  Append(@, [amount |-> amount,
                             before |-> [position |-> s.position,
                                         totalShift |-> s.totalShift],
                             after |-> [position |-> s0.position,
                                        totalShift |-> s0.totalShift]])]
    IN  IF s1.springState = SpringEDGE
        THEN [s1 EXCEPT !.anchor = s1.edgeSpringPosition]
        ELSE IF s1.springState = SpringPAGE
        THEN [s1 EXCEPT !.anchor = s1.pageSpringPosition]
        ELSE s1

\* ------------------------------------------------------------- normalization
RECURSIVE _normalizeForward(_, _, _)
_normalizeForward(n, offset, pos) ==
    IF offset + pos >= _nodeSizeForDirection(n) /\ getNext(n) # Null
    THEN _normalizeForward(getNext(n), offset - _nodeSizeForDirection(n), pos)
    ELSE [node |-> n, offset |-> offset]

\* the backward loop re-basing by the size of the node it leaves
RECURSIVE _normalizeBackward_ownSize(_, _, _)
_normalizeBackward_ownSize(n, offset, pos) ==
    IF offset + pos <= 0 /\ getPrevious(n) # Null
    THEN _normalizeBackward_ownSize(getPrevious(n),
                                    offset + _nodeSizeForDirection(n), pos)
    ELSE [node |-> n, offset |-> offset]

RECURSIVE _normalizeBackward(_, _, _)
_normalizeBackward(n, offset, pos) ==
    IF offset + pos <= 0 /\ getPrevious(n) # Null
    THEN _normalizeBackward(getPrevious(n),
                            offset + _nodeSizeForDirection(getPrevious(n)), pos)
    ELSE [node |-> n, offset |-> offset]

\* 0.025 in velocity units
creepSpeed == (25 * VelUnit) \div 1000

_normalizeState(s) ==
    IF s.node = Null
    THEN [s EXCEPT !.threw = TRUE]
    ELSE LET pos == Round(getPosition(s)) + coverCenter
             f == _normalizeForward(s.node, 0, pos)
             b == _normalizeBackward(f.node, f.offset, pos)
             s1 == [s EXCEPT !.node = b.node]
             s2 == IF b.offset # 0 THEN _shiftOrigin(s1, b.offset) ELSE s1
         IN  IF Abs(getVelocity(s2)) < creepSpeed THEN setVelocity(s2, 0) ELSE s2

\* ------------------------------------------------------------- gestures
Clamp(x, limit) == IF x < -limit THEN -limit ELSE IF x > limit THEN limit ELSE x

\* _handleStart leaving the forces attached
_handleStart_attached(s, ev) ==
    LET s1 == [s EXCEPT !.touchCount = IF ev.count = Undefined THEN 1 ELSE ev.count]
        s2 == setVelocity(s1, 0)
    IN  [s2 EXCEPT !.touchVelocity = 0, !.earlyEnd = FALSE]

_handleStart(s, ev) ==
    LET s1 == [s EXCEPT !.touchCount = IF ev.count = Undefined THEN 1 ELSE ev.count]
        s2 == setVelocity(_detachAgents(s1), 0)
    IN  [s2 EXCEPT !.touchVelocity = 0, !.earlyEnd = FALSE]

\* _handleEnd releasing into free scroll even at a boundary
_handleEnd_free(s, ev) ==
    LET s1 == [s EXCEPT !.touchCount = IF ev.count = Undefined THEN 0 ELSE ev.count]
    IN  IF s1.touchCount # 0 THEN s1
        ELSE LET s4 == _attachAgents(_detachAgents(s1))
                 limit == IF ev.slip THEN (speedLimit * edgeGripPermille) \div 1000
                          ELSE speedLimit
                 s5 == setVelocity(s4, Clamp(-ev.velocity, limit))
             IN  [s5 EXCEPT !.touchVelocity = 0, !.needsPaginationCheck = TRUE]

\* _handleEnd releasing while touches are still down
_handleEnd_always(s, ev) ==
    LET s1 == [s EXCEPT !.touchCount = IF ev.count = Undefined THEN 0 ELSE ev.count]
    IN  IF FALSE THEN s1
        ELSE LET s2 == _detachAgents(s1)
                 s3 == IF s2.onEdge # EdgeNONE
                       THEN _setSpring(s2, s2.edgeSpringPosition, SpringEDGE)
                       ELSE s2
                 s4 == _attachAgents(s3)
                 limit == IF ev.slip THEN (speedLimit * edgeGripPermille) \div 1000
                          ELSE speedLimit
                 s5 == setVelocity(s4, Clamp(-ev.velocity, limit))
             IN  [s5 EXCEPT !.touchVelocity = 0, !.needsPaginationCheck = TRUE]

\* _handleEnd clamping to speedLimit whatever the slip flag
_handleEnd_ungripped(s, ev) ==
    LET s1 == [s EXCEPT !.touchCount = IF ev.count = Undefined THEN 0 ELSE ev.count]
    IN  IF s1.touchCount # 0 THEN s1
        ELSE LET s2 == _detachAgents(s1)
                 s3 == IF s2.onEdge # EdgeNONE
                       THEN _setSpring(s2, s2.edgeSpringPosition, SpringEDGE)
                       ELSE s2
                 s4 == _attachAgents(s3)
                 limit == IF FALSE THEN (speedLimit * edgeGripPermille) \div 1000
                          ELSE speedLimit
                 s5 == setVelocity(s4, Clamp(-ev.velocity, limit))
             IN  [s5 EXCEPT !.touchVelocity = 0, !.needsPaginationCheck = TRUE]

_handleEnd(s, ev) ==
    LET s1 == [s EXCEPT !.touchCount = IF ev.count = Undefined THEN 0 ELSE ev.count]
    IN  IF s1.touchCount # 0 THEN s1
        ELSE LET s2 == _detachAgents(s1)
                 s3 == IF s2.onEdge # EdgeNONE
                       THEN _setSpring(s2, s2.edgeSpringPosition, SpringEDGE)
                       ELSE s2
                 s4 == _attachAgents(s3)
                 limit == IF ev.slip THEN (speedLimit * edgeGripPermille) \div 1000
                          ELSE speedLimit
                 s5 == setVelocity(s4, Clamp(-ev.velocity, limit))
             IN  [s5 EXCEPT !.touchVelocity = 0, !.needsPaginationCheck = TRUE]

\* speedLimit * 16 as a distance
deltaLimit == (speedLimit * 16 * PosUnit) \div VelUnit

\* _handleMove applying a resisted delta unclamped
_handleMove_unclamped(s, ev) ==
    LET v == -ev.velocity
        d == -ev.delta
        s1 == IF s.onEdge # EdgeNONE /\ ev.slip
              THEN IF (v < 0 /\ s.onEdge = EdgeTOP) \/ (v > 0 /\ s.onEdge = EdgeBOTTOM)
                   THEN IF ~s.earlyEnd
                        THEN [_handleEnd(s, ev) EXCEPT !.earlyEnd = TRUE]
                        ELSE s
                   ELSE IF s.earlyEnd /\ Abs(v) > Abs(getVelocity(s))
                        THEN _handleStart(s, ev)
                        ELSE s
              ELSE s
    IN  IF s1.earlyEnd THEN s1
        ELSE LET s2 == [s1 EXCEPT !.touchVelocity = v]
                 s3 == IF ev.slip THEN setVelocity(s2, Clamp(v, speedLimit)) ELSE s2
                 delta == d
                 s4 == setPosition(s3, getPosition(s3) + delta)
                 s5 == [s4 EXCEPT !.displacement = @ + delta]
             IN  IF s5.springState = SpringNONE THEN _normalizeState(s5) ELSE s5

\* _handleMove going on after an early end
_handleMove_through(s, ev) ==
    LET v == -ev.velocity
        d == -ev.delta
        s1 == IF s.onEdge # EdgeNONE /\ ev.slip
              THEN IF (v < 0 /\ s.onEdge = EdgeTOP) \/ (v > 0 /\ s.onEdge = EdgeBOTTOM)
                   THEN IF ~s.earlyEnd
                        THEN [_handleEnd(s, ev) EXCEPT !.earlyEnd = TRUE]
                        ELSE s
                   ELSE IF s.earlyEnd /\ Abs(v) > Abs(getVelocity(s))
                        THEN _handleStart(s, ev)
                        ELSE s
              ELSE s
    IN  IF FALSE THEN s1
        ELSE LET s2 == [s1 EXCEPT !.touchVelocity = v]
                 s3 == IF ev.slip THEN setVelocity(s2, Clamp(v, speedLimit)) ELSE s2
                 delta == IF ev.slip THEN Clamp(d, deltaLimit) ELSE d
                 s4 == setPosition(s3, getPosition(s3) + delta)
                 s5 == [s4 EXCEPT !.displacement = @ + delta]
             IN  IF s5.springState = SpringNONE THEN _normalizeState(s5) ELSE s5

\* _handleMove never taking direct control again after an early end
_handleMove_noresume(s, ev) ==
    LET v == -ev.velocity
        d == -ev.delta
        s1 == IF s.onEdge # EdgeNONE /\ ev.slip
              THEN IF (v < 0 /\ s.onEdge = EdgeTOP) \/ (v > 0 /\ s.onEdge = EdgeBOTTOM)
                   THEN IF ~s.earlyEnd
                        THEN [_handleEnd(s, ev) EXCEPT !.earlyEnd = TRUE]
                        ELSE s
                   ELSE s
              ELSE s
    IN  IF s1.earlyEnd THEN s1
        ELSE LET s2 == [s1 EXCEPT !.touchVelocity = v]
                 s3 == IF ev.slip THEN setVelocity(s2, Clamp(v, speedLimit)) ELSE s2
                 delta == IF ev.slip THEN Clamp(d, deltaLimit) ELSE d
                 s4 == setPosition(s3, getPosition(s3) + delta)
                 s5 == [s4 EXCEPT !.displacement = @ + delta]
             IN  IF s5.springState = SpringNONE THEN _normalizeState(s5) ELSE s5

_handleMove(s, ev) ==
    LET v == -ev.velocity
        d == -ev.delta
        s1 == IF s.onEdge # EdgeNONE /\ ev.slip
              THEN IF (v < 0 /\ s.onEdge = EdgeTOP) \/ (v > 0 /\ s.onEdge = EdgeBOTTOM)
                   THEN IF ~s.earlyEnd
                        THEN [_handleEnd(s, ev) EXCEPT !.earlyEnd = TRUE]
                        ELSE s
                   ELSE IF s.earlyEnd /\ Abs(v) > Abs(getVelocity(s))
                        THEN _handleStart(s, ev)
                        ELSE s
              ELSE s
    IN  IF s1.earlyEnd THEN s1
        ELSE LET s2 == [s1 EXCEPT !.touchVelocity = v]
                 s3 == IF ev.slip THEN setVelocity(s2, Clamp(v, speedLimit)) ELSE s2
                 delta == IF ev.slip THEN Clamp(d, deltaLimit) ELSE d
                 s4 == setPosition(s3, getPosition(s3) + delta)
                 s5 == [s4 EXCEPT !.displacement = @ + delta]
             IN  IF s5.springState = SpringNONE THEN _normalizeState(s5) ELSE s5

\* ------------------------------------------------------------- navigation
Called(s, name) == [s EXCEPT !.calls = Append(@, name)]

\* goToPreviousPage without its return to the current node
goToPreviousPage_always(s0) ==
    LET s == Called(s0, "goToPreviousPage")
    IN  IF s.node = Null \/ s.onEdge = EdgeTOP THEN [s EXCEPT !.ret = Null]
        ELSE LET previousNode == getPrevious(s.node)
             IN  IF previousNode # Null
                 THEN LET s1 == [s EXCEPT !.node = previousNode]
                          s2 == _shiftOrigin(s1, _nodeSizeForDirection(previousNode))
                      IN  [_setSpring(s2, 0, SpringPAGE) EXCEPT !.ret = previousNode]
                 ELSE [s EXCEPT !.ret = previousNode]

\* goToPreviousPage re-basing by the size of the node it leaves
goToPreviousPage_ownSize(s0) ==
    LET s == Called(s0, "goToPreviousPage")
    IN  IF s.node = Null \/ s.onEdge = EdgeTOP THEN [s EXCEPT !.ret = Null]
        ELSE IF getPosition(s) > 1 * PosUnit /\ s.springState = SpringNONE
        THEN [_setSpring(s, 0, SpringPAGE) EXCEPT !.ret = s.node]
        ELSE LET previousNode == getPrevious(s.node)
             IN  IF previousNode # Null
                 THEN LET s1 == [s EXCEPT !.node = previousNode]
                          s2 == _shiftOrigin(s1, _nodeSizeForDirection(s.node))
                      IN  [_setSpring(s2, 0, SpringPAGE) EXCEPT !.ret = previousNode]
                 ELSE [s EXCEPT !.ret = previousNode]

goToPreviousPage(s0) ==
    LET s == Called(s0, "goToPreviousPage")
    IN  IF s.node = Null \/ s.onEdge = EdgeTOP THEN [s EXCEPT !.ret = Null]
        ELSE IF getPosition(s) > 1 * PosUnit /\ s.springState = SpringNONE
        THEN [_setSpring(s, 0, SpringPAGE) EXCEPT !.ret = s.node]
        ELSE LET previousNode == getPrevious(s.node)
             IN  IF previousNode # Null
                 THEN LET s1 == [s EXCEPT !.node = previousNode]
                          s2 == _shiftOrigin(s1, _nodeSizeForDirection(previousNode))
                      IN  [_setSpring(s2, 0, SpringPAGE) EXCEPT !.ret = previousNode]
                 ELSE [s EXCEPT !.ret = previousNode]

\* goToNextPage re-basing and springing whether or not there is a next node
goToNextPage_unchecked(s0) ==
    LET s == Called(s0, "goToNextPage")
    IN  IF s.node = Null \/ s.onEdge = EdgeBOTTOM THEN [s EXCEPT !.ret = Null]
        ELSE LET nextNode == getNext(s.node)
                 s1 == [s EXCEPT !.node = IF nextNode # Null THEN nextNode ELSE @]
                 s2 == _shiftOrigin(s1, -_nodeSizeForDirection(s.node))
             IN  [_setSpring(s2, 0, SpringPAGE) EXCEPT !.ret = nextNode]

\* goToNextPage re-basing by the size of the node it moves to
goToNextPage_ownSize(s0) ==
    LET s == Called(s0, "goToNextPage")
    IN  IF s.node = Null \/ s.onEdge = EdgeBOTTOM THEN [s EXCEPT !.ret = Null]
        ELSE LET nextNode == getNext(s.node)
             IN  IF nextNode # Null
                 THEN LET s1 == [s EXCEPT !.node = nextNode]
                          s2 == _shiftOrigin(s1, -_nodeSizeForDirection(nextNode))
                      IN  [_setSpring(s2, 0, SpringPAGE) EXCEPT !.ret = nextNode]
                 ELSE [s EXCEPT !.ret = nextNode]

goToNextPage(s0) ==
    LET s == Called(s0, "goToNextPage")
    IN  IF s.node = Null \/ s.onEdge = EdgeBOTTOM THEN [s EXCEPT !.ret = Null]
        ELSE LET nextNode == getNext(s.node)
             IN  IF nextNode # Null
                 THEN LET s1 == [s EXCEPT !.node = nextNode]
                          s2 == _shiftOrigin(s1, -_nodeSizeForDirection(s.node))
                      IN  [_setSpring(s2, 0, SpringPAGE) EXCEPT !.ret = nextNode]
                 ELSE [s EXCEPT !.ret = nextNode]

snapCurrentPage(s0) ==
    LET s == Called(s0, "snapCurrentPage")
    IN  [s EXCEPT !.scrollValue = getPosition(s), !.scrollActive = TRUE,
                  !.ret = Undefined]

RECURSIVE goToPreviousPageTimes(_, _)
goToPreviousPageTimes(s, k) ==
    IF k <= 0 THEN s ELSE goToPreviousPageTimes(goToPreviousPage(s), k - 1)

RECURSIVE goToNextPageTimes(_, _)
goToNextPageTimes(s, k) ==
    IF k <= 0 THEN s ELSE goToNextPageTimes(goToNextPage(s), k - 1)

\* goToPage with its loops running once more than the distance
goToPage_onceMore(s0, index) ==
    LET s == Called(s0, "goToPage")
    IN  IF s.node = Null THEN [s EXCEPT !.threw = TRUE]
        ELSE LET currentIndex == getCurrentIndex(s)
                 s1 == IF index # Undefined /\ currentIndex >= index
                       THEN goToPreviousPageTimes(s, currentIndex - index + 1)
                       ELSE s
                 s2 == IF index # Undefined /\ currentIndex < index
                       THEN goToNextPageTimes(s1, index - currentIndex + 1)
                       ELSE s1
                 s3 == IF index # Undefined /\ currentIndex = index
                       THEN snapCurrentPage(s2)
                       ELSE s2
             IN  [s3 EXCEPT !.ret = Undefined]

goToPage(s0, index) ==
    LET s == Called(s0, "goToPage")
    IN  IF s.node = Null THEN [s EXCEPT !.threw = TRUE]
        ELSE LET currentIndex == getCurrentIndex(s)
                 s1 == IF index # Undefined /\ currentIndex > index
                       THEN goToPreviousPageTimes(s, currentIndex - index)
                       ELSE s
                 s2 == IF index # Undefined /\ currentIndex < index
                       THEN goToNextPageTimes(s1, index - currentIndex)
                       ELSE s1
                 s3 == IF index # Undefined /\ currentIndex = index
                       THEN snapCurrentPage(s2)
                       ELSE s2
             IN  [s3 EXCEPT !.ret = Undefined]

\* ------------------------------------------------------------- pagination
\* the decision with each comparison of the engine slipped by one
PaginationDecide(s, stopOk, atHalf, atSwitch) ==
    LET v == getVelocity(s)
    IN  IF s.touchCount # 0 THEN s
        ELSE IF s.springState = SpringEDGE THEN s
        ELSE IF Abs(v) > pageStopSpeed \/ (~stopOk /\ Abs(v) = pageStopSpeed) THEN s
        ELSE IF s.node = Null THEN [s EXCEPT !.threw = TRUE]
        ELSE LET p == getPosition(s)
                 velocitySwitch == Abs(v) > pageSwitchSpeed
                                       \/ (atSwitch /\ Abs(v) = pageSwitchSpeed)
                 nodeSize == _nodeSizeForDirection(s.node)
                 positionNext == 2 * p > nodeSize \/ (atHalf /\ 2 * p = nodeSize)
                 s1 == [s EXCEPT !.needsPaginationCheck = FALSE]
             IN  IF (positionNext /\ ~velocitySwitch) \/ (velocitySwitch /\ v > 0)
                 THEN goToNextPage(s1)
                 ELSE IF velocitySwitch /\ v < 0
                 THEN goToPreviousPage(s1)
                 ELSE _setSpring(s1, 0, SpringPAGE)

_handlePagination_half(s0) ==
    PaginationDecide(Called(s0, "_handlePagination"), FALSE, TRUE, FALSE)

_handlePagination_stop(s0) ==
    PaginationDecide(Called(s0, "_handlePagination"), TRUE, FALSE, FALSE)

_handlePagination_clear(s0) ==
    [PaginationDecide(Called(s0, "_handlePagination"), FALSE, FALSE, FALSE)
        EXCEPT !.needsPaginationCheck = FALSE]

_handlePagination_edge(s0) ==
    LET s == Called(s0, "_handlePagination")
    IN  IF s.touchCount # 0 THEN s
        ELSE PaginationDecide([s EXCEPT !.springState =
                                  IF @ = SpringEDGE THEN SpringPAGE ELSE @],
                              FALSE, FALSE, FALSE)

_handlePagination(s0) ==
    LET s == Called(s0, "_handlePagination")
        v == getVelocity(s)
    IN  IF s.touchCount # 0 THEN s
        ELSE IF s.springState = SpringEDGE THEN s
        ELSE IF Abs(v) >= pageStopSpeed THEN s
        ELSE IF s.node = Null THEN [s EXCEPT !.threw = TRUE]
        ELSE LET p == getPosition(s)
                 velocitySwitch == Abs(v) > pageSwitchSpeed
                 nodeSize == _nodeSizeForDirection(s.node)
                 positionNext == 2 * p > nodeSize
                 velocityNext == v > 0
                 velocityPrev == v < 0
                 s1 == [s EXCEPT !.needsPaginationCheck = FALSE]
             IN  IF (positionNext /\ ~velocitySwitch) \/ (velocitySwitch /\ velocityNext)
                 THEN goToNextPage(s1)
                 ELSE IF velocitySwitch /\ velocityPrev
                 THEN goToPreviousPage(s1)
                 ELSE _setSpring(s1, 0, SpringPAGE)

Emit(s, ev) == [s EXCEPT !.emitted = Append(@, ev)]

\* render comparing the indices without recording the one it reported
render_uncached(s) ==
    LET s1 == IF paginated /\ s.needsPaginationCheck THEN _handlePagination(s) ELSE s
    IN  IF s1.threw \/ s1.node = Null THEN s1
        ELSE IF s1.cachedIndex < s1.node
        THEN Emit(s1, <<"pageChange", 1, s1.node>>)
        ELSE IF s1.cachedIndex > s1.node
        THEN Emit(s1, <<"pageChange", -1, s1.node>>)
        ELSE s1

render(s) ==
    LET s1 == IF paginated /\ s.needsPaginationCheck THEN _handlePagination(s) ELSE s
    IN  IF s1.threw \/ s1.node = Null THEN s1
        ELSE IF s1.cachedIndex < s1.node
        THEN [Emit(s1, <<"pageChange", 1, s1.node>>) EXCEPT !.cachedIndex = s1.node]
        ELSE IF s1.cachedIndex > s1.node
        THEN [Emit(s1, <<"pageChange", -1, s1.node>>) EXCEPT !.cachedIndex = s1.node]
        ELSE s1

\* ------------------------------------------------------------- boundaries
\* _handleEdge keeping the spring on a particle at rest
_handleEdge_sprung(s, edge) ==
    LET s1 == [s EXCEPT !.onEdge = edge]
    IN  IF s1.touchCount = 0 /\ s1.springState # SpringEDGE
        THEN _setSpring(s1, s1.edgeSpringPosition, SpringEDGE)
        ELSE s1

_handleEdge(s, edge) ==
    LET s1 == [s EXCEPT !.onEdge = edge]
        s2 == IF s1.touchCount = 0 /\ s1.springState # SpringEDGE
              THEN _setSpring(s1, s1.edgeSpringPosition, SpringEDGE)
              ELSE s1
    IN  IF s2.springState # SpringNONE /\ Abs(getVelocity(s2)) < (1 * VelUnit) \div 1000
        THEN _attachAgents(_detachAgents(s2))
        ELSE s2

onEdgeHandler(s, data) ==
    Emit(_handleEdge([s EXCEPT !.edgeSpringPosition = data.position], data.edge),
         <<"onEdge", 0, Undefined>>)

offEdgeHandler(s) == Emit([s EXCEPT !.onEdge = EdgeNONE], <<"offEdge", 0, Undefined>>)

\* ------------------------------------------------------------- particle events
\* the particle's update handler normalizing without recording the displacement
particleUpdateHandler_stale(s) ==
    IF s.springState = SpringNONE THEN _normalizeState(s) ELSE s

particleUpdateHandler(s) ==
    LET s1 == IF s.springState = SpringNONE THEN _normalizeState(s) ELSE s
    IN  IF s1.threw THEN s1
        ELSE [s1 EXCEPT !.displacement = s1.position - s1.totalShift]

\* the end handler with goToPage and the snap event under its condition
particleEndHandler_scoped(s) ==
    LET guard == ~paginated \/ (paginated /\ s.springState # SpringNONE)
    IN  IF ~guard THEN s
        ELSE IF s.node = Null THEN [s EXCEPT !.threw = TRUE]
        ELSE LET index == getCurrentIndex(s)
                 s1 == goToPage(s, index)
             IN  IF s1.threw THEN s1 ELSE Emit(s1, <<"snap", 0, index>>)

particleEndHandler(s) ==
    LET guard == ~paginated \/ (paginated /\ s.springState # SpringNONE)
    IN  IF guard /\ s.node = Null THEN [s EXCEPT !.threw = TRUE]
        ELSE LET index == IF guard THEN getCurrentIndex(s) ELSE Undefined
                 s1 == goToPage(s, index)
             IN  IF s1.threw THEN s1 ELSE Emit(s1, <<"snap", 0, index>>)

\* ------------------------------------------------------------- snap animation
_scrollAnimation(s, value, done) ==
    LET s1 == [s EXCEPT !.scrollValue = value,
                        !.scrollActive = IF done THEN FALSE ELSE @]
        s2 == setPosition(s1, value)
    IN  IF s2.node = Null THEN [s2 EXCEPT !.threw = TRUE]
        ELSE [s2 EXCEPT !.displacement = getAbsolutePosition(s2)]

\* ------------------------------------------------------------- inputs
\* the positions gestures and the physics engine bring the particle to:
\* every 100 pixels and half a pixel before, and one clamped delta around 0
PosGrid ==
    {k * 100 * PosUnit + f : k \in -1..MaxGrid, f \in {-1, 0}}
        \union {-deltaLimit, deltaLimit}

\* an input may leave the particle on the grid, or bring it closer to it
Reachable(from, to) == to \in PosGrid \/ Abs(to) < Abs(from)

\* what the scroller reports: the top edge at the first item, the bottom edge
\* at the last one, with the position of the boundary
EdgeData ==
    IF node = Null THEN {}
    ELSE [edge : {e \in {EdgeTOP, EdgeBOTTOM} :
                    /\ e # onEdge
                    /\ e = EdgeTOP => getPrevious(node) = Null
                    /\ e = EdgeBOTTOM => getNext(node) = Null},
          position : {0}]

\* one step of the physics engine: with the spring attached the particle stays,
\* moves half the way to the anchor or reaches it, at any speed; under drag
\* alone it keeps its direction and does not speed up; with no force and no
\* velocity it stays where it is
Halfway(a, b) == a + ((b - a) \div (200 * PosUnit)) * 100 * PosUnit

Integrate(velocities, deltas) ==
    IF \E i \in 1..Len(agents) : agents[i] = "spring"
    THEN [position : {position, Halfway(position, anchor), anchor},
          velocity : velocities]
    ELSE [position : {x \in {position + d : d \in deltas \union {0}} :
                        /\ (x - position) * velocity >= 0
                        /\ velocity = 0 => x = position
                        /\ Reachable(position, x)},
          velocity : {v \in velocities :
                        v * velocity >= 0 /\ Abs(v) <= Abs(velocity)}]

\* the values the snap transition takes on its way to 0
Midway(x) == IF x >= 0 THEN (x \div (200 * PosUnit)) * 100 * PosUnit
             ELSE -(((-x) \div (200 * PosUnit)) * 100 * PosUnit)

\* ------------------------------------------------------------- actions
Init ==
    /\ node = Null
    /\ touchCount = 0
    /\ springState = SpringNONE
    /\ onEdge = EdgeNONE
    /\ pageSpringPosition = 0
    /\ edgeSpringPosition = 0
    /\ touchVelocity = 0
    /\ earlyEnd = FALSE
    /\ needsPaginationCheck = FALSE
    /\ displacement = 0
    /\ totalShift = 0
    /\ cachedIndex = 0
    /\ position = 0
    /\ velocity = 0
    /\ agents = <<>>
    /\ anchor = 0
    /\ period = edgePeriod
    /\ scrollValue = 0
    /\ scrollActive = FALSE
    /\ paginated \in BOOLEAN
    /\ gesture = FALSE
    /\ lastOp = "new"
    /\ lastArg = Undefined
    /\ shifted = <<>>
    /\ calls = <<>>
    /\ ret = Undefined
    /\ emitted = <<>>
    /\ threw = FALSE

SequenceFrom ==
    /\ node = Null
    /\ Commit("sequenceFrom", Undefined, [State EXCEPT !.node = 0])
    /\ UNCHANGED gesture

Start(events) ==
    \E ev \in events :
        /\ Commit("start", ev, _handleStart(State, ev))
        /\ gesture' = TRUE

Update(events) ==
    \E ev \in events :
        /\ gesture
        /\ LET s == _handleMove(State, ev)
           IN  /\ Reachable(position, s.position - (s.totalShift - totalShift))
               /\ Commit("update", ev, s)
        /\ UNCHANGED gesture

End(events) ==
    \E ev \in events :
        /\ gesture
        /\ Commit("end", ev, _handleEnd(State, ev))
        /\ gesture' = (ev.count # Undefined /\ ev.count # 0)

GoToPreviousPage ==
    /\ Commit("goToPreviousPage", Undefined, goToPreviousPage(State))
    /\ UNCHANGED gesture

GoToNextPage ==
    /\ Commit("goToNextPage", Undefined, goToNextPage(State))
    /\ UNCHANGED gesture

GoToPage(indices) ==
    \E index \in indices :
        /\ Commit("goToPage", index, goToPage(State, index))
        /\ UNCHANGED gesture

SnapCurrentPage ==
    /\ Commit("snapCurrentPage", Undefined, snapCurrentPage(State))
    /\ UNCHANGED gesture

ScrollAnimation ==
    /\ scrollActive
    /\ \E done \in BOOLEAN :
        Commit("scrollAnimation", Undefined,
               _scrollAnimation(State, IF done THEN 0 ELSE Midway(scrollValue), done))
    /\ UNCHANGED gesture

OnEdge ==
    \E data \in EdgeData :
        /\ Commit("onEdge", data, onEdgeHandler(State, data))
        /\ UNCHANGED gesture

OffEdge ==
    /\ onEdge # EdgeNONE
    /\ Commit("offEdge", Undefined, offEdgeHandler(State))
    /\ UNCHANGED gesture

ParticleUpdate(velocities, deltas) ==
    /\ agents # <<>> \/ velocity # 0
    /\ \E next \in Integrate(velocities, deltas) :
        Commit("particleUpdate", Undefined,
               particleUpdateHandler([State EXCEPT !.position = next.position,
                                                   !.velocity = next.velocity]))
    /\ UNCHANGED gesture

ParticleEnd ==
    /\ agents # <<>>
    /\ Commit("particleEnd", Undefined, particleEndHandler(State))
    /\ UNCHANGED gesture

Render ==
    /\ Commit("render", Undefined, render(State))
    /\ UNCHANGED gesture

\* ------------------------------------------------------------- pagination runs
\* one finger, dragged freely and released at a speed; the particle then
\* runs under its forces and the host renders frames
PaginationStarts == [count : {Undefined}]
PaginationUpdates ==
    [velocity : {0}, delta : {-100 * PosUnit, 100 * PosUnit}, slip : {FALSE},
     count : {Undefined}]
PaginationEnds == [velocity : {-2000, 0, 2000}, slip : {FALSE}, count : {Undefined}]
PaginationVelocities == {-2000, 0, 500, 2000, 10000}
PaginationDeltas == {-100 * PosUnit, 100 * PosUnit}

InitPagination == Init /\ paginated

NextPagination ==
    \/ SequenceFrom
    \/ Start(PaginationStarts)
    \/ End(PaginationEnds)
    \/ Render
    \/ /\ node # Null
       /\ \/ Update(PaginationUpdates)
          \/ ParticleUpdate(PaginationVelocities, PaginationDeltas)
          \/ OnEdge
          \/ OffEdge
          \/ GoToNextPage

SpecPagination == InitPagination /\ [][NextPagination]_vars

\* ------------------------------------------------------------- pagination claims
\* a render step in which the engine is invoked
EngineRuns == lastOp' = "render" /\ paginated /\ needsPaginationCheck

\* the engine reaches its decision
EngineDecides ==
    /\ EngineRuns
    /\ node # Null
    /\ touchCount = 0
    /\ springState # SpringEDGE
    /\ Abs(velocity) < pageStopSpeed

Invoked(name) == \E i \in 1..Len(calls') : calls'[i] = name

\* C1: when the engine decides, it invokes goToNextPage exactly when
\* (p > 0.5*S and |v| <= pageSwitchSpeed) or (|v| > pageSwitchSpeed and v > 0),
\* goToPreviousPage exactly when |v| > pageSwitchSpeed and v < 0, and in every
\* other case sets the Page spring anchored at 0 on the same node
C1_DecisionRule ==
    [][EngineDecides =>
        LET S == _nodeSizeForDirection(node)
            toNext == \/ 2 * position > S /\ Abs(velocity) <= pageSwitchSpeed
                      \/ Abs(velocity) > pageSwitchSpeed /\ velocity > 0
            toPrevious == Abs(velocity) > pageSwitchSpeed /\ velocity < 0
        IN  /\ Invoked("goToNextPage") <=> toNext
            /\ Invoked("goToPreviousPage") <=> toPrevious
            /\ (~toNext /\ ~toPrevious) =>
                  /\ springState' = SpringPAGE
                  /\ pageSpringPosition' = 0
                  /\ anchor' = 0
                  /\ node' = node]_vars

\* S = 300, p = 100, v = 0: the check ended on the same page, sprung to 0
C1_Witness ==
    /\ lastOp = "render"
    /\ calls = <<"_handlePagination">>
    /\ ~needsPaginationCheck
    /\ node = 1
    /\ _nodeSizeForDirection(node) = 300 * PosUnit
    /\ position = 100 * PosUnit
    /\ velocity = 0
    /\ springState = SpringPAGE
    /\ anchor = 0

\* a check at p = 100, v = -2 on a node of size 300 that has a previous node
C2_Case ==
    /\ EngineDecides
    /\ _nodeSizeForDirection(node) = 300 * PosUnit
    /\ position = 100 * PosUnit
    /\ velocity = -2 * VelUnit
    /\ getPrevious(node) # Null

\* C2 (as claimed): such a check makes the previous node current
C2_Original == [][C2_Case => node' = node - 1]_vars

\* C2 (amended): such a check invokes goToPreviousPage; with SpringState = None
\* the index is unchanged (the node springs back to 0, or nothing changes on
\* the top edge); the index decreases by one only with SpringState = Page off
\* the top edge
C2_VelocityOverride ==
    [][C2_Case =>
        /\ Invoked("goToPreviousPage")
        /\ ~Invoked("goToNextPage")
        /\ springState = SpringNONE =>
              /\ node' = node
              /\ onEdge # EdgeTOP =>
                    springState' = SpringPAGE /\ anchor' = 0 /\ ret' = node
              /\ onEdge = EdgeTOP =>
                    springState' = SpringNONE /\ ret' = Null /\ position' = position
        /\ (springState = SpringPAGE /\ onEdge # EdgeTOP) => node' = node - 1
        /\ (springState = SpringPAGE /\ onEdge = EdgeTOP) => node' = node]_vars

C2_Witness ==
    /\ lastOp = "render"
    /\ calls = <<"_handlePagination", "goToPreviousPage">>
    /\ node = 1
    /\ ret = 1
    /\ position = 100 * PosUnit
    /\ velocity = -2 * VelUnit
    /\ springState = SpringPAGE
    /\ anchor = 0

\* C3: a due check made while |v| >= pageStopSpeed changes neither the node,
\* nor SpringState, nor the anchors, and leaves needsPaginationCheck set; the
\* flag is cleared only by a render that finds touchCount = 0, SpringState
\* other than Edge and |v| < pageStopSpeed
C3_Deferral ==
    [][/\ (EngineRuns /\ Abs(getVelocity(State)) >= pageStopSpeed) =>
            /\ needsPaginationCheck'
            /\ Invoked("_handlePagination")
            /\ UNCHANGED <<node, springState, pageSpringPosition,
                           edgeSpringPosition, anchor, agents>>
       /\ (needsPaginationCheck /\ ~needsPaginationCheck') =>
            /\ lastOp' = "render"
            /\ touchCount = 0
            /\ springState # SpringEDGE
            /\ Abs(velocity) < pageStopSpeed]_vars

C3_Witness ==
    /\ lastOp = "render"
    /\ calls = <<"_handlePagination">>
    /\ needsPaginationCheck
    /\ touchCount = 0
    /\ springState = SpringPAGE
    /\ velocity >= pageStopSpeed

\* C4 (as claimed): a render with paginated and needsPaginationCheck invokes
\* the engine and returns with needsPaginationCheck false
C4_Original ==
    [][(EngineRuns /\ node # Null) =>
        Invoked("_handlePagination") /\ ~needsPaginationCheck']_vars

\* C4 (amended): such a render invokes the engine, and returns with
\* needsPaginationCheck false exactly when the engine found a bound
\* collection, touchCount = 0, SpringState other than Edge and
\* |v| < pageStopSpeed; otherwise the flag stays set
C4_Trigger ==
    [][EngineRuns =>
        /\ Invoked("_handlePagination")
        /\ ~needsPaginationCheck' <=> EngineDecides]_vars

C4_Witness ==
    /\ lastOp = "render"
    /\ calls = <<"_handlePagination">>
    /\ paginated
    /\ needsPaginationCheck
    /\ node # Null
    /\ touchCount > 0

\* C5: a render made while touchCount > 0 or SpringState = Edge changes
\* neither the node, nor SpringState, nor the attached forces, nor a spring
\* anchor, nor the particle position
C5_EngineGuards ==
    [][(lastOp' = "render" /\ (touchCount > 0 \/ springState = SpringEDGE)) =>
        UNCHANGED <<node, springState, agents, anchor, pageSpringPosition,
                    edgeSpringPosition, position>>]_vars

C5_Witness ==
    /\ lastOp = "render"
    /\ calls = <<"_handlePagination">>
    /\ needsPaginationCheck
    /\ touchCount = 0
    /\ springState = SpringEDGE
    /\ velocity # 0
    /\ position # anchor

\* ------------------------------------------------------------- page change claims
\* the pageChange events of the last step
PageChanges == SelectSeq(emitted, LAMBDA e : e[1] = "pageChange")

\* C11 (as claimed): one pageChange per change of the index; the index moves
\* one node at a time, so the event a render emits reports an index one away
\* from the index last reported
C11_Original ==
    [][(lastOp' = "render" /\ node' # Null /\ Len(PageChanges') > 0) =>
        Abs(node' - cachedIndex) = 1]_vars

\* C11 (amended): a render with a bound collection emits one pageChange when
\* the current index differs from cachedIndex and none otherwise, with
\* direction +1 when the index is above cachedIndex and -1 when below and with
\* the current index, and leaves cachedIndex equal to the current index; no
\* other step emits pageChange or changes cachedIndex
C11_ReportedOnRender ==
    [][/\ (lastOp' = "render" /\ node' # Null /\ ~threw') =>
            /\ cachedIndex' = node'
            /\ PageChanges' =
                  IF cachedIndex < node' THEN <<<<"pageChange", 1, node'>>>>
                  ELSE IF cachedIndex > node' THEN <<<<"pageChange", -1, node'>>>>
                  ELSE <<>>
       /\ lastOp' # "render" =>
            PageChanges' = <<>> /\ cachedIndex' = cachedIndex]_vars

\* a render that reports the return to the first node
C11_Witness ==
    /\ lastOp = "render"
    /\ PageChanges = <<<<"pageChange", -1, 0>>>>
    /\ cachedIndex = 0
    /\ node = 0


\* ------------------------------------------------------------- navigation runs
\* a bound collection, dragged by one finger and released, with the particle
\* running, the scroller reporting the boundaries and the host calling the
\* navigation methods at any time
NavigationStarts == [count : {Undefined}]
NavigationUpdates ==
    [velocity : {0}, delta : {-100 * PosUnit, 100 * PosUnit}, slip : {FALSE},
     count : {Undefined}]
NavigationEnds == [velocity : {0, 2000}, slip : {FALSE}, count : {Undefined}]
NavigationVelocities == {-2000, 0}
NavigationDeltas == {-100 * PosUnit}

InitNavigation == Init /\ ~paginated

NextNavigation ==
    \/ SequenceFrom
    \/ /\ node # Null
       /\ \/ Start(NavigationStarts)
          \/ Update(NavigationUpdates)
          \/ End(NavigationEnds)
          \/ ParticleUpdate(NavigationVelocities, NavigationDeltas)
          \/ OnEdge
          \/ OffEdge
          \/ GoToPreviousPage
          \/ GoToNextPage
          \/ GoToPage((0..(NumNodes - 1)) \ {node})

SpecNavigation == InitNavigation /\ [][NextNavigation]_vars

\* ------------------------------------------------------------- snap runs
\* the same gestures and boundaries, with the host paging by index, snapping
\* the current page, and the snap transition running frame by frame
NextSnap ==
    \/ SequenceFrom
    \/ /\ node # Null
       /\ \/ Start(NavigationStarts)
          \/ Update(NavigationUpdates)
          \/ End(NavigationEnds)
          \/ OnEdge
          \/ OffEdge
          \/ GoToPage(0..(NumNodes - 1))
          \/ SnapCurrentPage
          \/ ScrollAnimation

SpecSnap == InitNavigation /\ [][NextSnap]_vars

\* ------------------------------------------------------------- navigation claims
\* what a navigation method that does nothing leaves alone
NavigationUnchanged ==
    UNCHANGED <<node, position, totalShift, pageSpringPosition,
                edgeSpringPosition, anchor, springState, agents>>

\* goToPreviousPage takes its return to the current node
BackToCurrent ==
    position > 1 * PosUnit /\ springState = SpringNONE /\ onEdge # EdgeTOP

\* C6 (as claimed): at the first node goToPreviousPage returns null and
\* leaves the state unchanged, whatever the position, SpringState, EdgeState
C6_Original ==
    [][(lastOp' = "goToPreviousPage" /\ node = 0) =>
        ret' = Null /\ NavigationUnchanged]_vars

\* C6 (amended): at the first node goToPreviousPage returns null and leaves
\* the state unchanged, unless position > 1 with SpringState = None off the
\* top edge: then it returns the current node and attaches the Page spring
\* anchored at 0, with node, position and totalShift unchanged
C6_FirstNode ==
    [][(lastOp' = "goToPreviousPage" /\ node = 0) =>
        /\ ~BackToCurrent => ret' = Null /\ NavigationUnchanged
        /\ BackToCurrent =>
              /\ ret' = node
              /\ springState' = SpringPAGE
              /\ pageSpringPosition' = 0
              /\ anchor' = 0
              /\ agents' = <<"spring">>
              /\ UNCHANGED <<node, position, totalShift, edgeSpringPosition>>]_vars

C6_Witness ==
    /\ lastOp = "goToPreviousPage"
    /\ node = 0
    /\ ret = Null
    /\ onEdge = EdgeNONE
    /\ position > 1 * PosUnit
    /\ springState = SpringPAGE

\* C7: at the last node goToNextPage returns null and leaves the state
\* unchanged, whatever the position, SpringState and EdgeState
C7_LastNode ==
    [][(lastOp' = "goToNextPage" /\ node # Null /\ getNext(node) = Null) =>
        ret' = Null /\ NavigationUnchanged]_vars

C7_Witness ==
    /\ lastOp = "goToNextPage"
    /\ node = NumNodes - 1
    /\ ret = Null
    /\ onEdge = EdgeNONE
    /\ position # 0

\* C8: when goToPage(i) returns, the current index is i
C8_ReachesTarget ==
    [][(lastOp' = "goToPage" /\ node # Null) => node' = lastArg']_vars

\* C9: goToPage(i) at index i calls neither goToPreviousPage nor
\* goToNextPage and changes nothing but the snap animation, which it starts
\* from the current position
C9_SnapOnly ==
    [][(lastOp' = "goToPage" /\ node # Null /\ lastArg' = node) =>
        /\ calls' = <<"goToPage", "snapCurrentPage">>
        /\ scrollActive'
        /\ scrollValue' = position
        /\ UNCHANGED <<node, touchCount, springState, onEdge, pageSpringPosition,
                       edgeSpringPosition, touchVelocity, earlyEnd,
                       needsPaginationCheck, displacement, totalShift,
                       cachedIndex, position, velocity, agents, anchor,
                       period>>]_vars

C9_Witness ==
    /\ lastOp = "goToPage"
    /\ lastArg = node
    /\ node = 1
    /\ scrollActive
    /\ scrollValue = position
    /\ position # 0
    /\ springState = SpringNONE

\* C10 (as claimed): totalShift + position is the same before and after
\* every _shiftOrigin call
C10_Original ==
    \A i \in 1..Len(shifted) :
        shifted[i].after.totalShift + shifted[i].after.position
            = shifted[i].before.totalShift + shifted[i].before.position

\* C10 (amended): position - totalShift is the same before and after every
\* _shiftOrigin call, whatever the amount
C10_Continuity ==
    \A i \in 1..Len(shifted) :
        shifted[i].after.position - shifted[i].after.totalShift
            = shifted[i].before.position - shifted[i].before.totalShift

\* a goToPage that crossed two nodes of different sizes
C10_Witness ==
    /\ lastOp = "goToPage"
    /\ Len(shifted) = 2
    /\ shifted[1].amount # shifted[2].amount
    /\ shifted[1].amount # 0

\* ------------------------------------------------------------- gesture runs
\* one or two fingers or the wheel: starts with or without a count, updates
\* resisted (slip) or not, slower and faster than speedLimit, shorter and
\* longer than speedLimit * 16, releases of one finger or of all; the scroller
\* reports the boundaries
GestureStarts == [count : {Undefined, 2}]
GestureUpdates ==
    [velocity : {-6000, 0, 6000}, delta : {-100 * PosUnit, 100 * PosUnit},
     slip : BOOLEAN, count : {Undefined}]
GestureEnds ==
    [velocity : {-6000, 0}, slip : BOOLEAN, count : {Undefined, 1}]

NextGesture ==
    \/ SequenceFrom
    \/ Start(GestureStarts)
    \/ End(GestureEnds)
    \/ /\ node # Null
       /\ \/ Update(GestureUpdates)
          \/ OnEdge
          \/ OffEdge

SpecGesture == InitNavigation /\ [][NextGesture]_vars

\* ------------------------------------------------------------- gesture claims
\* the force generators attached to the particle, as a set
AgentSet == {agents[i] : i \in 1..Len(agents)}

\* C12: an end event that brings touchCount to 0 at a boundary leaves
\* SpringState = Edge and only the spring attached, with the edge period and
\* anchored at edgeSpringPosition
C12_EdgeRelease ==
    [][(lastOp' = "end" /\ touchCount' = 0 /\ onEdge # EdgeNONE) =>
        /\ springState' = SpringEDGE
        /\ AgentSet' = {"spring"}
        /\ anchor' = edgeSpringPosition'
        /\ period' = edgePeriod]_vars

C12_Witness ==
    /\ lastOp = "end"
    /\ touchCount = 0
    /\ onEdge = EdgeTOP
    /\ springState = SpringEDGE
    /\ AgentSet = {"spring"}
    /\ velocity # 0

\* the gesture velocity pushes further past the boundary the controller is at
Pushing(ev) ==
    \/ -ev.velocity < 0 /\ onEdge = EdgeTOP
    \/ -ev.velocity > 0 /\ onEdge = EdgeBOTTOM

\* an update after an early end that takes direct control again
Restarts(ev) ==
    /\ onEdge # EdgeNONE
    /\ ev.slip
    /\ ~Pushing(ev)
    /\ earlyEnd
    /\ Abs(ev.velocity) > Abs(getVelocity(State))

\* the delta an update applied to the position, net of the re-basing
AppliedDelta == (position' - position) - (totalShift' - totalShift)

\* C13: an applied update with slip writes a particle velocity of at most
\* speedLimit and applies to position and displacement a delta of at most
\* speedLimit * 16
C13_SlipClamps ==
    [][(lastOp' = "update" /\ lastArg'.slip /\ ~earlyEnd') =>
        /\ Abs(velocity') <= speedLimit
        /\ Abs(AppliedDelta) <= deltaLimit
        /\ displacement' - displacement = AppliedDelta]_vars

C13_Witness ==
    /\ lastOp = "update"
    /\ lastArg.slip
    /\ ~earlyEnd
    /\ lastArg.velocity = -6000
    /\ lastArg.delta = -100 * PosUnit
    /\ velocity = speedLimit
    /\ position = deltaLimit

\* C14: after every gesture event getVelocity() is at most speedLimit
C14_SpeedLimit ==
    lastOp \in {"start", "update", "end"} => Abs(getVelocity(State)) <= speedLimit

\* C17 (as claimed): an update at touchCount = 0 changes neither the particle
\* nor the displacement, the touch velocity, the node or totalShift
C17_Original ==
    [][(lastOp' = "update" /\ touchCount = 0) =>
        UNCHANGED <<position, displacement, velocity, touchVelocity, node,
                    totalShift>>]_vars

\* C17 (amended): an update at touchCount = 0 after an early end changes
\* none of them unless it takes direct control again; then it is handled as a
\* start followed by the update
C17_IgnoredAfterEarlyEnd ==
    [][(lastOp' = "update" /\ touchCount = 0 /\ earlyEnd) =>
        /\ ~Restarts(lastArg') =>
              UNCHANGED <<position, displacement, velocity, touchVelocity, node,
                          totalShift, touchCount, earlyEnd>>
        /\ Restarts(lastArg') =>
              /\ touchCount' = 1
              /\ ~earlyEnd'
              /\ touchVelocity' = -lastArg'.velocity
              /\ displacement' - displacement = AppliedDelta]_vars

C17_Witness ==
    /\ lastOp = "update"
    /\ lastArg.velocity = 0
    /\ lastArg.delta # 0
    /\ earlyEnd
    /\ touchCount = 0
    /\ springState = SpringEDGE

\* C18: a start sets touchCount to the event's count, or to 1 without a
\* count, detaches every force with SpringState = None, zeroes the particle
\* velocity and the touch velocity and clears earlyEnd; position, node,
\* totalShift and the spring anchors stay
C18_StartCancels ==
    [][lastOp' = "start" =>
        /\ touchCount' = IF lastArg'.count = Undefined THEN 1 ELSE lastArg'.count
        /\ agents' = <<>>
        /\ springState' = SpringNONE
        /\ velocity' = 0
        /\ touchVelocity' = 0
        /\ ~earlyEnd'
        /\ UNCHANGED <<position, node, totalShift, edgeSpringPosition,
                       pageSpringPosition, anchor>>]_vars

\* a start at a boundary after a release
C18_Witness ==
    /\ lastOp = "start"
    /\ touchCount = 2
    /\ needsPaginationCheck
    /\ onEdge # EdgeNONE
    /\ agents = <<>>
    /\ position # 0

\* C20: an update with slip at a boundary, pushing further past it with no
\* early end issued yet, ends the gesture early: earlyEnd is set, touchCount
\* is 0, the Edge spring alone is attached at edgeSpringPosition,
\* needsPaginationCheck is set, and position and displacement stay
C20_EarlyEnd ==
    [][(lastOp' = "update" /\ lastArg'.slip /\ onEdge # EdgeNONE
            /\ Pushing(lastArg') /\ ~earlyEnd) =>
        /\ earlyEnd'
        /\ touchCount' = 0
        /\ springState' = SpringEDGE
        /\ AgentSet' = {"spring"}
        /\ anchor' = edgeSpringPosition'
        /\ needsPaginationCheck'
        /\ UNCHANGED <<position, displacement>>]_vars

C20_Witness ==
    /\ lastOp = "update"
    /\ lastArg.slip
    /\ lastArg.velocity = 6000
    /\ onEdge = EdgeTOP
    /\ earlyEnd
    /\ touchCount = 0
    /\ springState = SpringEDGE
    /\ velocity = -((speedLimit * edgeGripPermille) \div 1000)
    /\ touchVelocity = 0

\* ------------------------------------------------------------- force claims
\* C15 (as claimed): in every state the attached generators are drag and
\* friction when SpringState = None and the spring otherwise
C15_Original ==
    AgentSet = IF springState = SpringNONE THEN {"drag", "friction"} ELSE {"spring"}

\* C15 (amended): the attached generators are the spring alone when
\* SpringState is Edge or Page; when SpringState = None they are drag and
\* friction, or none at all
C15_ForcesMatch ==
    /\ springState # SpringNONE => AgentSet = {"spring"}
    /\ springState = SpringNONE => AgentSet \in {{}, {"drag", "friction"}}

\* a release into free scroll
C15_Witness ==
    /\ lastOp = "end"
    /\ springState = SpringNONE
    /\ AgentSet = {"drag", "friction"}
    /\ velocity # 0
    /\ node = 1

\* ------------------------------------------------------------- host runs
\* the host calling the navigation methods at any time, before a collection
\* is bound as well as after, around a one-finger gesture, with the snap
\* transition running frame by frame
NextHost ==
    \/ SequenceFrom
    \/ Start(NavigationStarts)
    \/ End(NavigationEnds)
    \/ GoToPreviousPage
    \/ GoToNextPage
    \/ GoToPage(0..(NumNodes - 1))
    \/ SnapCurrentPage
    \/ ScrollAnimation
    \/ (node # Null /\ Update(NavigationUpdates))

SpecHost == InitNavigation /\ [][NextHost]_vars

\* ------------------------------------------------------------- host claims
\* C16: with no collection bound every navigation method returns null, raises
\* no error and changes nothing
C16_UnboundNoOp ==
    [][(node = Null /\ lastOp' \in {"goToPreviousPage", "goToNextPage",
                                     "goToPage", "snapCurrentPage"}) =>
        /\ ret' = Null
        /\ ~threw'
        /\ UNCHANGED <<node, touchCount, springState, onEdge, pageSpringPosition,
                       edgeSpringPosition, touchVelocity, earlyEnd,
                       needsPaginationCheck, displacement, totalShift,
                       cachedIndex, position, velocity, agents, anchor, period,
                       scrollValue, scrollActive>>]_vars

\* C19: once a start, update, end, goToNextPage or goToPreviousPage has been
\* processed on a bound collection, the snap animation writes no more: no
\* frame of it follows
C19_Superseded ==
    [][(node # Null /\ lastOp \in {"start", "update", "end", "goToNextPage",
                                   "goToPreviousPage"}) =>
        ~(lastOp' = "scrollAnimation")]_vars

\* ------------------------------------------------------------- early end claims
\* C21: an update that finds earlyEnd set and leaves it set changes neither
\* the position, the displacement, the touch velocity, the node nor
\* totalShift, whatever its delta, velocity and slip and whatever the
\* EdgeState
C21_IgnoredWhileEarlyEnd ==
    [][(lastOp' = "update" /\ earlyEnd /\ earlyEnd') =>
        UNCHANGED <<position, displacement, touchVelocity, node, totalShift>>]_vars

\* an update without slip, ignored after an early end
C21_Witness ==
    /\ lastOp = "update"
    /\ ~lastArg.slip
    /\ lastArg.velocity # 0
    /\ lastArg.delta # 0
    /\ earlyEnd
    /\ onEdge = EdgeNONE

\* C22: with earlyEnd set, an update with slip at a boundary whose velocity
\* points away from it and exceeds the particle's speed is handled as a
\* start: earlyEnd is cleared, touchCount > 0, no force is attached with
\* SpringState = None, and the update's delta is applied to position and
\* displacement
C22_Resume ==
    [][(lastOp' = "update" /\ earlyEnd /\ lastArg'.slip /\ onEdge # EdgeNONE
            /\ ~Pushing(lastArg') /\ Abs(lastArg'.velocity) > Abs(velocity)) =>
        /\ ~earlyEnd'
        /\ touchCount' > 0
        /\ agents' = <<>>
        /\ springState' = SpringNONE
        /\ AppliedDelta = Clamp(-lastArg'.delta, deltaLimit)
        /\ displacement' - displacement = AppliedDelta]_vars

C22_Witness ==
    /\ lastOp = "update"
    /\ lastArg.slip
    /\ lastArg.velocity = -6000
    /\ onEdge = EdgeTOP
    /\ needsPaginationCheck
    /\ ~earlyEnd
    /\ touchCount = 1
    /\ agents = <<>>
    /\ velocity = speedLimit
    /\ position = deltaLimit

\* ------------------------------------------------------------- release claims
\* C23: an end event with count > 0 sets touchCount to that count and changes
\* nothing else; one with count 0 or no count attaches forces and sets
\* needsPaginationCheck
C23_TouchesDown ==
    [][lastOp' = "end" =>
        IF lastArg'.count # Undefined /\ lastArg'.count > 0
        THEN /\ touchCount' = lastArg'.count
             /\ UNCHANGED <<agents, springState, velocity, touchVelocity,
                            needsPaginationCheck, position, node, anchor,
                            period, edgeSpringPosition, pageSpringPosition,
                            displacement, totalShift, earlyEnd, onEdge>>
        ELSE /\ touchCount' = 0
             /\ agents' # <<>>
             /\ needsPaginationCheck']_vars

\* one of two fingers lifted during a drag
C23_Witness ==
    /\ lastOp = "end"
    /\ lastArg.count = 1
    /\ touchCount = 1
    /\ agents = <<>>
    /\ ~needsPaginationCheck
    /\ touchVelocity # 0
    /\ lastArg.velocity # 0

\* C24: an end event that brings touchCount to 0 leaves the particle velocity
\* at the release velocity clamped to speedLimit, or to speedLimit * edgeGrip
\* with slip, the touch velocity at 0 and needsPaginationCheck set
C24_ReleaseClamp ==
    [][(lastOp' = "end" /\ touchCount' = 0) =>
        /\ velocity' = Clamp(-lastArg'.velocity,
                             IF lastArg'.slip
                             THEN (speedLimit * edgeGripPermille) \div 1000
                             ELSE speedLimit)
        /\ touchVelocity' = 0
        /\ needsPaginationCheck']_vars

C24_Witness ==
    /\ lastOp = "end"
    /\ touchCount = 0
    /\ lastArg.slip
    /\ lastArg.velocity = -6000
    /\ velocity = (speedLimit * edgeGripPermille) \div 1000
    /\ touchVelocity = 0
    /\ needsPaginationCheck
    /\ onEdge = EdgeNONE

\* ------------------------------------------------------------- normalization claims
\* C25: after every normalization the rounded position is a distance into
\* the current node: below its size when a next node exists, above 0 when a
\* previous node exists
C25_DistanceIntoNode ==
    [][(lastOp' \in {"update", "particleUpdate"} /\ springState' = SpringNONE
            /\ ~earlyEnd' /\ ~threw') =>
        LET q == Round(position') + coverCenter
        IN  /\ getNext(node') # Null => q < _nodeSizeForDirection(node')
            /\ getPrevious(node') # Null => q > 0]_vars

\* ------------------------------------------------------------- re-basing claims
\* the amounts the origin is shifted by: the size of a node, either way
ShiftAmounts ==
    {0} \union {_nodeSizeForDirection(n) : n \in 0..(NumNodes - 1)}
        \union {-_nodeSizeForDirection(n) : n \in 0..(NumNodes - 1)}

\* C26: _shiftOrigin(amount), from any state, adds amount to
\* edgeSpringPosition, pageSpringPosition, the position and totalShift, leaves
\* node, touchCount, SpringState, EdgeState and the velocities alone, and with
\* SpringState Edge or Page leaves the live anchor at the shifted anchor of
\* that state
C26_ShiftsAll ==
    \A amount \in ShiftAmounts :
        LET s == _shiftOrigin(State, amount)
        IN  /\ s.edgeSpringPosition = edgeSpringPosition + amount
            /\ s.pageSpringPosition = pageSpringPosition + amount
            /\ s.position = position + amount
            /\ s.totalShift = totalShift + amount
            /\ s.node = node
            /\ s.touchCount = touchCount
            /\ s.springState = springState
            /\ s.onEdge = onEdge
            /\ s.velocity = velocity
            /\ s.touchVelocity = touchVelocity
            /\ springState = SpringEDGE => s.anchor = s.edgeSpringPosition
            /\ springState = SpringPAGE => s.anchor = s.pageSpringPosition
            /\ springState = SpringNONE => s.anchor = anchor

\* a goToNextPage from the first node at the top edge, whose shift moved the
\* position and the edge anchor by minus the size of that node
C26_Witness ==
    /\ lastOp = "goToNextPage"
    /\ Len(shifted) = 1
    /\ shifted[1].amount = -_nodeSizeForDirection(0)
    /\ edgeSpringPosition = shifted[1].amount
    /\ shifted[1].before.position # 0
    /\ springState = SpringPAGE
    /\ onEdge = EdgeTOP

\* ------------------------------------------------------------- boundary claims
\* the velocity below which _handleEdge resets the forces: 0.001
restSpeed == (1 * VelUnit) \div 1000

\* C27 (as claimed): a boundary reported at touchCount = 0 with SpringState
\* other than Edge leaves EdgeState at the reported edge and the Edge spring
\* attached at the reported position; reported during a touch it is recorded
\* and no Edge spring is attached
C27_Original ==
    [][lastOp' = "onEdge" =>
        /\ onEdge' = lastArg'.edge
        /\ (touchCount = 0 /\ springState # SpringEDGE) =>
              /\ springState' = SpringEDGE
              /\ AgentSet' = {"spring"}
              /\ anchor' = lastArg'.position
        /\ touchCount > 0 => (springState' = SpringEDGE => springState = SpringEDGE)]_vars

\* C27 (amended): the same, when |getVelocity()| >= 0.001; below that speed
\* the spring just set is detached again: SpringState = None with drag and
\* friction attached, the edge anchor staying at the reported position
C27_EdgeReported ==
    [][lastOp' = "onEdge" =>
        /\ onEdge' = lastArg'.edge
        /\ edgeSpringPosition' = lastArg'.position
        /\ (touchCount = 0 /\ springState # SpringEDGE) =>
              IF Abs(velocity) >= restSpeed
              THEN /\ springState' = SpringEDGE
                   /\ AgentSet' = {"spring"}
                   /\ anchor' = lastArg'.position
                   /\ period' = edgePeriod
              ELSE /\ springState' = SpringNONE
                   /\ AgentSet' = {"drag", "friction"}
        /\ touchCount > 0 => (springState' = SpringEDGE => springState = SpringEDGE)]_vars

\* the bottom edge reported to a released, moving particle
C27_Witness ==
    /\ lastOp = "onEdge"
    /\ lastArg.edge = EdgeBOTTOM
    /\ touchCount = 0
    /\ velocity # 0
    /\ springState = SpringEDGE
    /\ AgentSet = {"spring"}
    /\ anchor = lastArg.position
    /\ position # anchor

\* ------------------------------------------------------------- paging claims
\* C28: goToNextPage with a next node, off the bottom edge, returns that node
\* and makes it current, shifts position, totalShift and edgeSpringPosition
\* by minus the size of the node it leaves, and ends with SpringState = Page,
\* the spring attached and pageSpringPosition = anchor = 0
C28_NextPage ==
    [][(lastOp' = "goToNextPage" /\ node # Null /\ getNext(node) # Null
            /\ onEdge # EdgeBOTTOM) =>
        /\ ret' = getNext(node)
        /\ node' = node + 1
        /\ position' = position - _nodeSizeForDirection(node)
        /\ totalShift' = totalShift - _nodeSizeForDirection(node)
        /\ edgeSpringPosition' = edgeSpringPosition - _nodeSizeForDirection(node)
        /\ springState' = SpringPAGE
        /\ AgentSet' = {"spring"}
        /\ pageSpringPosition' = 0
        /\ anchor' = 0
        /\ period' = pagePeriod]_vars

C28_Witness ==
    /\ lastOp = "goToNextPage"
    /\ ret = NumNodes - 1
    /\ node = NumNodes - 1
    /\ Len(shifted) = 1
    /\ shifted[1].amount = -_nodeSizeForDirection(NumNodes - 2)
    /\ springState = SpringPAGE
    /\ anchor = 0
    /\ position # 0

\* C29: goToPreviousPage off the top edge, with position > 1 and
\* SpringState = None, keeps node and totalShift, returns the current node and
\* sets the Page spring at 0; otherwise, with a previous node, it makes that
\* node current, shifts position, totalShift and edgeSpringPosition by plus
\* that node's size and sets the Page spring at 0
C29_PreviousPage ==
    [][(lastOp' = "goToPreviousPage" /\ node # Null /\ onEdge # EdgeTOP) =>
        IF position > 1 * PosUnit /\ springState = SpringNONE
        THEN /\ UNCHANGED <<node, totalShift>>
             /\ ret' = node
             /\ springState' = SpringPAGE
             /\ pageSpringPosition' = 0
             /\ anchor' = 0
        ELSE getPrevious(node) # Null =>
             /\ ret' = getPrevious(node)
             /\ node' = node - 1
             /\ position' = position + _nodeSizeForDirection(node - 1)
             /\ totalShift' = totalShift + _nodeSizeForDirection(node - 1)
             /\ edgeSpringPosition' =
                    edgeSpringPosition + _nodeSizeForDirection(node - 1)
             /\ springState' = SpringPAGE
             /\ AgentSet' = {"spring"}
             /\ pageSpringPosition' = 0
             /\ anchor' = 0]_vars

C29_Witness ==
    /\ lastOp = "goToPreviousPage"
    /\ ret = 0
    /\ node = 0
    /\ Len(shifted) = 1
    /\ shifted[1].amount = _nodeSizeForDirection(0)
    /\ springState = SpringPAGE
    /\ anchor = 0
    /\ position > _nodeSizeForDirection(0)

\* ------------------------------------------------------------- rest runs
\* paginated or not: one finger dragging and releasing, the host paging
\* forward, the scroller reporting the boundaries, and the particle coming to
\* rest after a release. The particle rests after it moved, and with no
\* collection bound its update handler raises in _normalizeState before that,
\* so it comes to rest on a bound collection only
NextRest ==
    \/ SequenceFrom
    \/ Start(NavigationStarts)
    \/ End(NavigationEnds)
    \/ /\ node # Null
       /\ \/ ParticleEnd
          \/ Update(NavigationUpdates)
          \/ GoToNextPage
          \/ OnEdge
          \/ OffEdge

SpecRest == Init /\ [][NextRest]_vars

\* ------------------------------------------------------------- rest claims
\* the snap events of the last step
Snaps == SelectSeq(emitted, LAMBDA e : e[1] = "snap")

\* C30: each time the particle comes to rest one snap event is emitted,
\* whatever paginated and SpringState, and node, totalShift and SpringState
\* stay
C30_SnapOnRest ==
    [][lastOp' = "particleEnd" =>
        /\ ~threw'
        /\ Len(Snaps') = 1
        /\ UNCHANGED <<node, totalShift, springState>>]_vars

\* the particle at rest on a paginated collection with no spring: the snap
\* event carries no index and no snap animation starts
C30_Witness ==
    /\ lastOp = "particleEnd"
    /\ paginated
    /\ springState = SpringNONE
    /\ Snaps = <<<<"snap", 0, Undefined>>>>
    /\ calls = <<"goToPage">>
    /\ node = 1

\* ------------------------------------------------------------- displacement runs
\* a bound collection dragged and released, the particle running under its
\* forces, the host paging back and forth and snapping the current page, and
\* the snap transition running frame by frame
NextDisplacement ==
    \/ SequenceFrom
    \/ /\ node # Null
       /\ \/ Start(NavigationStarts)
          \/ Update(NavigationUpdates)
          \/ End(NavigationEnds)
          \/ ParticleUpdate(NavigationVelocities, NavigationDeltas)
          \/ GoToPreviousPage
          \/ GoToNextPage
          \/ SnapCurrentPage
          \/ ScrollAnimation

SpecDisplacement == InitNavigation /\ [][NextDisplacement]_vars

\* ------------------------------------------------------------- displacement claims
\* C31: after every step displacement = position - totalShift; a navigation
\* call, which only re-bases, leaves displacement alone, and an update changes
\* it by the delta it applied
C31_Displacement ==
    [][/\ displacement' = position' - totalShift'
       /\ lastOp' \in {"goToNextPage", "goToPreviousPage"} =>
             displacement' = displacement
       /\ lastOp' = "update" => displacement' - displacement = AppliedDelta]_vars

\* a frame of the snap animation on the second node, away from 0
C31_Witness ==
    /\ lastOp = "scrollAnimation"
    /\ node = 1
    /\ totalShift # 0
    /\ position # 0
    /\ displacement = cumulativeSizes(1) + position

\* ------------------------------------------------------------- absolute position claims
\* the deltas a gesture or the particle may add in one step: up to the whole
\* collection, either way
CrossingDeltas == {k * 100 * PosUnit : k \in -(2 * NumNodes)..(2 * NumNodes)}

\* the state after the position moved by d and was normalized
NormalizedAfter(d) == _normalizeState(setPosition(State, getPosition(State) + d))

\* C32: every cursor move cancels its re-basing in getAbsolutePosition():
\* the cumulative size before the current node is minus totalShift, a
\* normalization after any delta leaves the absolute position at the old one
\* plus the delta, however many nodes it crosses, and goToNextPage and
\* goToPreviousPage leave it unchanged
C32_AbsolutePosition ==
    node # Null =>
        /\ cumulativeSizes(node) = -totalShift
        /\ \A d \in CrossingDeltas :
              getAbsolutePosition(NormalizedAfter(d)) = getAbsolutePosition(State) + d
        /\ getAbsolutePosition(goToNextPage(State)) = getAbsolutePosition(State)
        /\ getAbsolutePosition(goToPreviousPage(State)) = getAbsolutePosition(State)

\* goToNextPage moved the cursor onto the last node, and from there one
\* normalization goes back over two nodes of different sizes with a single
\* re-basing by the sum of their sizes
C32_Witness ==
    /\ lastOp = "goToNextPage"
    /\ shifted # <<>>
    /\ node = NumNodes - 1
    /\ _nodeSizeForDirection(node - 1) # _nodeSizeForDirection(node - 2)
    /\ \E d \in CrossingDeltas :
          /\ NormalizedAfter(d).node = node - 2
          /\ Len(NormalizedAfter(d).shifted) = 1
          /\ NormalizedAfter(d).shifted[1].amount =
                _nodeSizeForDirection(node - 1) + _nodeSizeForDirection(node - 2)

====
